---- MODULE Spec2Model ----
(***************************************************************************)
(* Model of the planning engine of STUDY.PLANNER (src/app.py): ranking,    *)
(* the main allocation pass, the remediation pass, the slot scheduler,     *)
(* the missed-day re-adjustment and the weekly load summary.               *)
(*                                                                         *)
(* Units.  Hours are counted in twentieths of an hour (0.05h): every       *)
(* number the allocator computes from the sliders (steps of 0.5h), the     *)
(* whole hours_needed, priority * 0.75 and the one-decimal task texts is   *)
(* a multiple of 0.05h.  Clock times are minutes since midnight.           *)
(***************************************************************************)
EXTENDS Integers, Sequences, FiniteSets, TLC

(***************************************************************************)
(* Bounds of the model.                                                    *)
(***************************************************************************)
MaxSubjects == 2
MaxDays == 2
MaxStudyHalfHours == 6
MaxMinSessionHalfHours == 2
MaxSubjectsPerDay == 2
MaxRepairs == 2

(***************************************************************************)
(* Program constants.                                                      *)
(***************************************************************************)
SlotMinutes == 30
PrayerMinutes == 10

Hours(h) == 20 * h
HalfHours(k) == 10 * k

\* a per-session share of priority * 0.5
PriorityHoursHalf(p) == 10 * p

\* priority * 0.75, the per-session share of a subject (line 587)
PriorityHours(p) == 15 * p

ISLAMIC_PRAYER_TIMES == {372, 445, 799, 1001, 1152, 1227}

BREAK_TIMES == {<<720, 780>>, <<1110, 1170>>, <<630, 645>>, <<930, 945>>}

time_slots_options ==
    << <<360, 480>>, <<480, 600>>, <<600, 720>>, <<720, 840>>,
       <<840, 960>>, <<960, 1080>>, <<1080, 1200>>, <<1200, 1320>> >>

Week == <<"Monday", "Tuesday", "Wednesday", "Thursday", "Friday", "Saturday", "Sunday">>

NoTask == <<>>

(***************************************************************************)
(* Inputs.  A subject name is a sequence of characters, so that the        *)
(* substring test of the remediation pass is a real substring test.        *)
(***************************************************************************)
NameA == <<"A">>
NameAB == <<"A", "B">>
NameC == <<"C">>

Subject(n, d, p, h) == [name |-> n, days |-> d, priority |-> p, hours_needed |-> h]

\* the subjects a list is drawn from: (deadline - now).days is -1 for an
\* overdue subject; priority is 1 (Easy), 2 (Medium), 3 (Hard)
SubjectPool ==
    { Subject(NameA, 2, 3, 4),
      Subject(NameAB, 2, 1, 1),
      Subject(NameC, -1, 1, 2),
      Subject(NameC, 9, 2, 3) }

RECURSIVE SeqsUpTo(_, _)
SeqsUpTo(S, n) ==
    IF n = 0 THEN {<<>>}
    ELSE LET shorter == SeqsUpTo(S, n - 1)
         IN  shorter \cup {Append(s, x) : s \in {t \in shorter : Len(t) = n - 1}, x \in S}

SubjectLists == {s \in SeqsUpTo(SubjectPool, MaxSubjects) : Len(s) >= 1}

SelectedDaysChoices == {SubSeq(Week, 1, n) : n \in 1..MaxDays}

\* preferred_times as chosen in the multiselect: none, the default pair,
\* the lunch window, the dinner window, and the default pair picked in
\* reverse order
PreferredChoices ==
    { <<>>,
      <<time_slots_options[2], time_slots_options[5]>>,
      <<time_slots_options[4]>>,
      <<time_slots_options[7]>>,
      <<time_slots_options[5], time_slots_options[2]>> }

VARIABLES
    subjects,             \* st.session_state.subjects
    selected_days,        \* sidebar: checked week days, in week order
    study_hours,          \* sidebar slider "Hours per day"
    max_subjects_per_day, \* sidebar slider
    min_session_hours,    \* sidebar slider
    preferred_times,      \* st.session_state.preferred_times
    pc,                   \* "idle", "main", "redistribute", "commit"
    remaining_hours,      \* dict name -> hours left
    sorted_subjects,      \* ranked subject list
    warned,               \* the capacity warning of line 567 was shown
    plan,                 \* the list of day dicts under construction
    day_index,            \* position of the day loop in selected_days
    subject_index,        \* position of the subject loop in sorted_subjects
    day_plan,             \* the day dict being filled
    day_hours_used,       \* running total of the day
    day_number,           \* ordinal of the next day label
    rem_day,              \* remediation: position in plan
    rem_item,             \* remediation: position in remaining_hours.items(), 0 before the day's capacity is computed
    remaining_day_capacity,
    heap,                 \* the day dicts referenced from the session state
    study_plan,           \* st.session_state.study_plan: references into heap
    original_plan,        \* st.session_state.original_plan: references into heap
    generated,            \* the day dicts as they were when generation committed
    repairs               \* number of re-adjustments since generation

inputs == <<subjects, selected_days, study_hours, max_subjects_per_day,
            min_session_hours, preferred_times>>
locals == <<remaining_hours, sorted_subjects, warned, plan, day_index, subject_index,
            day_plan, day_hours_used, day_number, rem_day, rem_item,
            remaining_day_capacity>>
session == <<heap, study_plan, original_plan, generated, repairs>>
vars == <<inputs, pc, locals, session>>

(***************************************************************************)
(* Text of a task entry and its parsing.                                   *)
(***************************************************************************)
Min2(a, b) == IF a <= b THEN a ELSE b
Max2(a, b) == IF a >= b THEN a ELSE b

RECURSIVE SumSeq(_)
SumSeq(s) == IF s = <<>> THEN 0 ELSE Head(s) + SumSeq(Tail(s))

\* f"{x:.1f}" of a value that is exact in binary floating point (a multiple
\* of 0.25h): the number of tenths, ties to even
FormatExact(v) ==
    LET t == v \div 2
    IN  IF v % 2 = 0 THEN t
        ELSE IF t % 2 = 0 THEN t ELSE t + 1

\* f"{x:.1f}" of a value computed from parsed one-decimal texts: such a
\* value carries a floating-point error, so a value halfway between two
\* tenths is printed as either neighbour
FormatFloat(v) ==
    IF v % 2 = 0 THEN {v \div 2} ELSE {v \div 2, v \div 2 + 1}

DigitChar == <<"0", "1", "2", "3", "4", "5", "6", "7", "8", "9">>

RECURSIVE Digits(_)
Digits(n) == IF n < 10 THEN <<DigitChar[n + 1]>>
             ELSE Append(Digits(n \div 10), DigitChar[(n % 10) + 1])

\* the one-decimal text of a number of tenths
TenthsText(t) == Digits(t \div 10) \o <<".">> \o Digits(t % 10)

\* A task entry is its text, f"{name} ({h:.1f}h)" or f"{name} (+{h:.1f}h)",
\* a sequence of characters.  hours and index are bookkeeping: the number
\* that was formatted (twentieths of an hour) and the position in
\* sorted_subjects of the subject the entry was committed for (0 for a
\* supplemental session).  The program does not keep them and no operation
\* of the model reads them.
Task(n, h, t, x, k) ==
    [text |-> n \o <<" ", "(">> \o (IF x THEN <<"+">> ELSE <<>>) \o TenthsText(t) \o <<"h", ")">>,
     hours |-> h,
     index |-> k]

\* subject_name in task
Contains(text, s) ==
    \E i \in 1..(Len(text) - Len(s) + 1) : SubSeq(text, i, i + Len(s) - 1) = s

\* str.find, from 1; 0 when absent
Find(text, s) ==
    IF Contains(text, s)
    THEN CHOOSE i \in 1..(Len(text) - Len(s) + 1) :
            /\ SubSeq(text, i, i + Len(s) - 1) = s
            /\ \A j \in 1..(i - 1) : SubSeq(text, j, j + Len(s) - 1) # s
    ELSE 0

\* text.split(sep)[0]
SplitHead(text, sep) ==
    IF Find(text, sep) = 0 THEN text ELSE SubSeq(text, 1, Find(text, sep) - 1)

\* text.split(sep)[1] of a text that contains sep
SplitSecond(text, sep) ==
    LET rest == SubSeq(text, Find(text, sep) + Len(sep), Len(text))
    IN  SplitHead(rest, sep)

\* text.replace(s, "")
RECURSIVE Remove(_, _)
Remove(text, s) ==
    IF Find(text, s) = 0 THEN text
    ELSE SubSeq(text, 1, Find(text, s) - 1)
            \o Remove(SubSeq(text, Find(text, s) + Len(s), Len(text)), s)

DigitValue(c) == (CHOOSE d \in 1..10 : DigitChar[d] = c) - 1

RECURSIVE DigitsValue(_)
DigitsValue(ds) ==
    IF ds = <<>> THEN 0
    ELSE 10 * DigitsValue(SubSeq(ds, 1, Len(ds) - 1)) + DigitValue(ds[Len(ds)])

\* float(text) of "d.d" or "+d.d", in twentieths of an hour
float(text) ==
    LET unsigned == IF text # <<>> /\ Head(text) = "+" THEN Tail(text) ELSE text
        dot == Find(unsigned, <<".">>)
    IN  2 * (10 * DigitsValue(SubSeq(unsigned, 1, dot - 1))
             + DigitsValue(SubSeq(unsigned, dot + 1, Len(unsigned))))

\* float(task.split("(")[1].replace("h)", ""))
ParseHours(task) == float(Remove(SplitSecond(task.text, <<"(">>), <<"h", ")">>))

\* task.split(" (")[0]
ParseName(task) == SplitHead(task.text, <<" ", "(">>)

(***************************************************************************)
(* PriorityRanker: sorted(subjects, key = (days, -priority)), stable.      *)
(***************************************************************************)
\* a ranking that looks at the difficulty before the deadline
RankKeyLessByPriority(a, b) ==
    \/ -a.priority < -b.priority
    \/ a.priority = b.priority /\ a.days < b.days

RankKeyLess(a, b) ==
    \/ a.days < b.days
    \/ a.days = b.days /\ -a.priority < -b.priority

\* insert x behind every element whose key is not greater (stable)
RECURSIVE InsertRanked(_, _)
InsertRanked(s, x) ==
    IF s = <<>> THEN <<x>>
    ELSE IF RankKeyLess(x, Head(s)) THEN <<x>> \o s
    ELSE <<Head(s)>> \o InsertRanked(Tail(s), x)

RECURSIVE SortSubjects(_)
SortSubjects(s) ==
    IF s = <<>> THEN <<>>
    ELSE InsertRanked(SortSubjects(SubSeq(s, 1, Len(s) - 1)), s[Len(s)])

(***************************************************************************)
(* remaining_hours = {subject['name']: subject['hours_needed'] ...}: one   *)
(* entry per name, the last subject of a name gives the value, and         *)
(* items() runs in the order the names first appear.                       *)
(***************************************************************************)
NamesOf(s) == {s[i].name : i \in 1..Len(s)}

InitialRemaining(s) ==
    [n \in NamesOf(s) |->
        LET last == CHOOSE i \in 1..Len(s) :
                        /\ s[i].name = n
                        /\ \A j \in (i + 1)..Len(s) : s[j].name # n
        IN  Hours(s[last].hours_needed)]

RECURSIVE ItemOrder(_)
ItemOrder(s) ==
    IF s = <<>> THEN <<>>
    ELSE LET before == ItemOrder(SubSeq(s, 1, Len(s) - 1))
             n == s[Len(s)].name
         IN  IF \E i \in 1..Len(before) : before[i] = n THEN before ELSE Append(before, n)

AnyRemaining(rh) == \E n \in DOMAIN rh : rh[n] > 0

\* a warning that also fires when the need equals the capacity
CapacityWarningAtLeast(s, days, cap) ==
    SumSeq([i \in 1..Len(s) |-> Hours(s[i].hours_needed)]) >= Len(days) * cap

\* total_weekly_hours_needed > total_available_hours
CapacityWarning(s, days, cap) ==
    SumSeq([i \in 1..Len(s) |-> Hours(s[i].hours_needed)]) > Len(days) * cap

(***************************************************************************)
(* ConflictCalendar: is_time_conflict.  A time text "%I:%M %p" keeps the   *)
(* clock time only; strptime reads it back on 1900-01-01.                  *)
(***************************************************************************)
strftime(t) == t % 1440
to_datetime(clock) == clock

\* an overlap test on closed intervals: touching at an endpoint overlaps
OverlapsClosed(slot_start, slot_end, block_start, block_end) ==
    ~(slot_end < block_start \/ slot_start > block_end)

\* an overlap test that only asks whether the slot starts inside the block
OverlapsStartOnly(slot_start, slot_end, block_start, block_end) ==
    slot_start >= block_start /\ slot_start < block_end

Overlaps(slot_start, slot_end, block_start, block_end) ==
    ~(slot_end <= block_start \/ slot_start >= block_end)

PrayerConflict(slot_start, slot_end, prayer_times) ==
    \E prayer_time \in prayer_times :
        Overlaps(slot_start, slot_end, to_datetime(prayer_time),
                 to_datetime(prayer_time) + PrayerMinutes)

BreakConflict(slot_start, slot_end, break_times) ==
    \E break_range \in break_times :
        Overlaps(slot_start, slot_end, to_datetime(break_range[1]),
                 to_datetime(break_range[2]))

is_time_conflict(time_str, prayer_times, break_times) ==
    LET slot_start == to_datetime(time_str[1])
        slot_end == to_datetime(time_str[2])
    IN  \/ PrayerConflict(slot_start, slot_end, prayer_times)
        \/ BreakConflict(slot_start, slot_end, break_times)

(***************************************************************************)
(* SlotScheduler: assign_study_times.                                      *)
(***************************************************************************)
Slot(time, available, task) == [time |-> time, available |-> available, task |-> task]

\* the 30-minute slots of one preferred window that conflict with nothing
WindowSlotsWith(time_range, prayer_times, break_times) ==
    LET start_time == to_datetime(time_range[1])
        end_time == to_datetime(time_range[2])
        num_slots == (end_time - start_time) \div SlotMinutes
        slot_time(i) == <<strftime(start_time + SlotMinutes * i),
                          strftime(start_time + SlotMinutes * i + SlotMinutes)>>
    IN  SelectSeq([k \in 1..num_slots |-> Slot(slot_time(k - 1), TRUE, NoTask)],
                  LAMBDA slot : ~is_time_conflict(slot.time, prayer_times, break_times))

\* prayer_times and break_times default to the module's tables (lines 290-293)
WindowSlots(time_range) == WindowSlotsWith(time_range, ISLAMIC_PRAYER_TIMES, BREAK_TIMES)

RECURSIVE AvailableSlots(_)
AvailableSlots(times) ==
    IF times = <<>> THEN <<>>
    ELSE WindowSlots(Head(times)) \o AvailableSlots(Tail(times))

\* sorted_tasks.sort(key = hours, reverse = True): stable, largest first
RECURSIVE InsertByHours(_, _)
InsertByHours(s, x) ==
    IF s = <<>> THEN <<x>>
    ELSE IF ParseHours(x) > ParseHours(Head(s)) THEN <<x>> \o s
    ELSE <<Head(s)>> \o InsertByHours(Tail(s), x)

RECURSIVE SortTasks(_)
SortTasks(s) ==
    IF s = <<>> THEN <<>>
    ELSE InsertByHours(SortTasks(SubSeq(s, 1, Len(s) - 1)), s[Len(s)])

\* int(task_hours * 2)
SlotsNeeded(task) == ParseHours(task) \div 10

\* the for loop of lines 347-356 from position i on:
\* <<consecutive_slots, available_start_index>> when it ends
RECURSIVE ScanSlots(_, _, _, _, _)
ScanSlots(time_slots, i, slots_needed, consecutive_slots, available_start_index) ==
    IF i > Len(time_slots) THEN <<consecutive_slots, available_start_index>>
    ELSE IF time_slots[i].available
         THEN LET start == IF available_start_index = -1 THEN i ELSE available_start_index
              IN  IF consecutive_slots + 1 >= slots_needed
                  THEN <<consecutive_slots + 1, start>>
                  ELSE ScanSlots(time_slots, i + 1, slots_needed, consecutive_slots + 1, start)
         ELSE ScanSlots(time_slots, i + 1, slots_needed, 0, -1)

ClaimSlots(time_slots, start, slots_needed, task_name) ==
    [i \in 1..Len(time_slots) |->
        IF i >= start /\ i < start + slots_needed
        THEN Slot(time_slots[i].time, FALSE, task_name)
        ELSE time_slots[i]]

\* where the scan resumes after a task was placed
NextSlotIndex(available_start_index, slots_needed) == available_start_index + slots_needed

\* the while loop of lines 337-368 (indices from 1)
RECURSIVE AssignLoop(_, _, _, _)
AssignLoop(sorted_tasks, time_slots, task_index, slot_index) ==
    IF ~(task_index <= Len(sorted_tasks) /\ slot_index <= Len(time_slots))
    THEN time_slots
    ELSE LET task == sorted_tasks[task_index]
             slots_needed == SlotsNeeded(task)
             found == ScanSlots(time_slots, slot_index, slots_needed, 0, -1)
         IN  IF found[1] >= slots_needed
             THEN AssignLoop(sorted_tasks,
                             ClaimSlots(time_slots, found[2], slots_needed, ParseName(task)),
                             task_index + 1, NextSlotIndex(found[2], slots_needed))
             ELSE AssignLoop(sorted_tasks, time_slots, task_index, slot_index + 1)

assign_study_times(tasks, times) ==
    IF times = <<>> THEN <<>>
    ELSE LET time_slots == AvailableSlots(times)
         IN  IF time_slots = <<>> THEN <<>>
             ELSE SelectSeq(AssignLoop(SortTasks(tasks), time_slots, 1, 1),
                            LAMBDA slot : slot.task # NoTask)

(***************************************************************************)
(* Display of a day's time schedule: the time slots grouped by task.       *)
(***************************************************************************)
\* the keys of task_slots, in the order of their first slot (lines 697-701)
RECURSIVE TaskSlotKeys(_)
TaskSlotKeys(time_slots) ==
    IF time_slots = <<>> THEN <<>>
    ELSE LET before == TaskSlotKeys(SubSeq(time_slots, 1, Len(time_slots) - 1))
             task_name == time_slots[Len(time_slots)].task
         IN  IF \E i \in 1..Len(before) : before[i] = task_name
             THEN before ELSE Append(before, task_name)

\* task_slots[task_name]: the times of the task's slots, in list order
task_slots(time_slots, task_name) ==
    LET own == SelectSeq(time_slots, LAMBDA slot : slot.task = task_name)
    IN  [i \in 1..Len(own) |-> own[i].time]

\* one displayed line per task: times[0] start, times[-1] end, and
\* len(times) * 0.5 hours (lines 704-711)
DisplayedSlots(time_slots) ==
    LET keys == TaskSlotKeys(time_slots)
    IN  [k \in 1..Len(keys) |->
            LET times == task_slots(time_slots, keys[k])
            IN  [start_time |-> times[1][1],
                 end_time |-> times[Len(times)][2],
                 task_name |-> keys[k],
                 duration_hours |-> HalfHours(Len(times))]]

(***************************************************************************)
(* DailyAllocator: the main allocation pass.                               *)
(***************************************************************************)
DayPlan(label, tasks, time_slots) == [Day |-> label, Tasks |-> tasks, TimeSlots |-> time_slots]

\* a label whose ordinal counts from zero
DayLabelFromZero(n, day) == <<n - 1, day>>

\* f"Day {day_number}: {clean_day_name}"
DayLabel(n, day) == <<n, day>>

\* min(max_subjects_per_day, len(sorted_subjects))
SubjectsToday(max_per_day, ranked) == Min2(max_per_day, Len(ranked))

\* an allocation that forgets what the day has already used
HoursToAllocateIgnoringUsed(cap, used, left, min_session, priority) ==
    Min2(Min2(cap, left), Max2(min_session, PriorityHours(priority)))

\* min(study_hours - day_hours_used, remaining, max(min_session, priority * 0.75))
HoursToAllocate(cap, used, left, min_session, priority) ==
    Min2(Min2(cap - used, left), Max2(min_session, PriorityHours(priority)))

\* hours_to_allocate >= min_session_hours
MeetsMinimum(hours_to_allocate, min_session) == hours_to_allocate >= min_session

\* the user clicks "Generate Weekly Study Plan": lines 550-575.  The handler
\* runs to line 633 without reading the session's plans and overwrites them
\* there, so the day dicts of the previous plan are dropped here already.
GenerateClick ==
    /\ pc = "idle"
    /\ subjects # <<>> /\ selected_days # <<>>
    /\ pc' = "main"
    /\ plan' = <<>>
    /\ remaining_hours' = InitialRemaining(subjects)
    /\ sorted_subjects' = SortSubjects(subjects)
    /\ warned' = CapacityWarning(subjects, selected_days, study_hours)
    /\ day_number' = 1
    /\ day_index' = 1
    /\ day_plan' = DayPlan(DayLabel(1, selected_days[1]), <<>>, <<>>)
    /\ day_hours_used' = 0
    /\ subject_index' = 1
    /\ rem_day' = 0 /\ rem_item' = 0 /\ remaining_day_capacity' = 0
    /\ heap' = <<>> /\ study_plan' = <<>> /\ original_plan' = <<>>
    /\ generated' = <<>> /\ repairs' = 0
    /\ UNCHANGED inputs

\* one iteration of "for subject in sorted_subjects": lines 581-595
AllocateSubject ==
    /\ pc = "main"
    /\ subject_index <= Len(sorted_subjects)
    /\ LET subject == sorted_subjects[subject_index]
           left == remaining_hours[subject.name]
           hours_to_allocate ==
               HoursToAllocate(study_hours, day_hours_used, left,
                               min_session_hours, subject.priority)
       IN  IF /\ left > 0
              /\ Len(day_plan.Tasks) < SubjectsToday(max_subjects_per_day, sorted_subjects)
              /\ MeetsMinimum(hours_to_allocate, min_session_hours)
           THEN /\ day_plan' = [day_plan EXCEPT !.Tasks =
                       Append(@, Task(subject.name, hours_to_allocate,
                                      FormatExact(hours_to_allocate), FALSE, subject_index))]
                /\ remaining_hours' =
                       [remaining_hours EXCEPT ![subject.name] = @ - hours_to_allocate]
                /\ day_hours_used' = day_hours_used + hours_to_allocate
           ELSE UNCHANGED <<day_plan, remaining_hours, day_hours_used>>
    /\ subject_index' = subject_index + 1
    /\ UNCHANGED <<inputs, pc, sorted_subjects, warned, plan, day_index, day_number,
                   rem_day, rem_item, remaining_day_capacity, session>>

\* the day dict that goes into the plan: lines 597-605
WithTimeSlots(dp, times) ==
    IF times # <<>>
    THEN [dp EXCEPT !.TimeSlots = assign_study_times(dp.Tasks, times)]
    ELSE dp

\* a day list that keeps every study day, with or without tasks
DayKeptAlways(dp) == TRUE

\* if day_plan["Tasks"]: line 597
DayKept(dp) == dp.Tasks # <<>>

\* the end of one iteration of "for day in selected_days": lines 597-608,
\* and the entry into the next one (lines 572-578) or into lines 610-613
FinishDay ==
    /\ pc = "main"
    /\ subject_index > Len(sorted_subjects)
    /\ LET kept == DayKept(day_plan)
           new_plan == IF kept THEN Append(plan, WithTimeSlots(day_plan, preferred_times))
                       ELSE plan
           new_number == IF kept THEN day_number + 1 ELSE day_number
       IN  /\ plan' = new_plan
           /\ day_number' = new_number
           /\ IF day_index < Len(selected_days)
              THEN /\ day_index' = day_index + 1
                   /\ day_plan' = DayPlan(DayLabel(new_number, selected_days[day_index + 1]),
                                          <<>>, <<>>)
                   /\ day_hours_used' = 0
                   /\ subject_index' = 1
                   /\ UNCHANGED <<pc, rem_day, rem_item>>
              ELSE /\ pc' = IF AnyRemaining(remaining_hours) /\ new_plan # <<>>
                            THEN "redistribute" ELSE "commit"
                   /\ rem_day' = 1 /\ rem_item' = 0
                   /\ UNCHANGED <<day_index, day_plan, day_hours_used, subject_index>>
    /\ UNCHANGED <<inputs, remaining_hours, sorted_subjects, warned,
                   remaining_day_capacity, session>>

(***************************************************************************)
(* DailyAllocator: the remediation pass, lines 610-629.                    *)
(***************************************************************************)
\* sum(float(task.split("(")[1].replace("h)", "")) for task in tasks)
TasksHours(tasks) == SumSeq([i \in 1..Len(tasks) |-> ParseHours(tasks[i])])

\* remaining_day_capacity = study_hours - day_hours_used
RemainingDayCapacity(cap, tasks) == cap - TasksHours(tasks)

\* any(subject_name in task for task in day_plan["Tasks"])
SubjectInToday(name, tasks) == \E i \in 1..Len(tasks) : Contains(tasks[i].text, name)

\* a day limit that admits one entry too many
UnderDayLimitInclusive(tasks, max_per_day) == Len(tasks) <= max_per_day

\* len(day_plan["Tasks"]) < max_subjects_per_day
UnderDayLimit(tasks, max_per_day) == Len(tasks) < max_per_day

\* a supplemental amount that ignores the hours the subject has left
HoursToAddIgnoringLeft(capacity, left, min_session) == Min2(capacity, min_session * 2)

\* min(remaining_day_capacity, hours_left, min_session_hours * 2)
HoursToAdd(capacity, left, min_session) == Min2(Min2(capacity, left), min_session * 2)

AfterDay(d) == IF d < Len(plan) THEN "redistribute" ELSE "commit"

\* "for day_plan in plan": the day's spare capacity, lines 613-618
RedistributeDay ==
    /\ pc = "redistribute"
    /\ rem_item = 0
    /\ LET capacity == RemainingDayCapacity(study_hours, plan[rem_day].Tasks)
       IN  IF plan[rem_day].Tasks # <<>> /\ capacity > min_session_hours
           THEN /\ remaining_day_capacity' = capacity
                /\ rem_item' = 1
                /\ UNCHANGED <<pc, rem_day>>
           ELSE /\ pc' = AfterDay(rem_day)
                /\ rem_day' = rem_day + 1
                /\ UNCHANGED <<remaining_day_capacity, rem_item>>
    /\ UNCHANGED <<inputs, remaining_hours, sorted_subjects, warned, plan, day_index,
                   subject_index, day_plan, day_hours_used, day_number, session>>

\* one iteration of "for subject_name, hours_left in remaining_hours.items()":
\* lines 620-629
RedistributeSubject ==
    /\ pc = "redistribute"
    /\ rem_item >= 1
    /\ LET order == ItemOrder(subjects)
           subject_name == order[rem_item]
           hours_left == remaining_hours[subject_name]
           tasks == plan[rem_day].Tasks
           hours_to_add == HoursToAdd(remaining_day_capacity, hours_left, min_session_hours)
       IN  /\ IF /\ hours_left > 0
                 /\ remaining_day_capacity >= min_session_hours
                 /\ SubjectInToday(subject_name, tasks)
                 /\ UnderDayLimit(tasks, max_subjects_per_day)
              THEN /\ \E shown \in FormatFloat(hours_to_add) :
                          plan' = [plan EXCEPT ![rem_day].Tasks =
                                      Append(@, Task(subject_name, hours_to_add, shown, TRUE, 0))]
                   /\ remaining_hours' =
                          [remaining_hours EXCEPT ![subject_name] = @ - hours_to_add]
                   /\ remaining_day_capacity' = remaining_day_capacity - hours_to_add
              ELSE UNCHANGED <<plan, remaining_hours, remaining_day_capacity>>
           /\ IF rem_item < Len(order)
              THEN /\ rem_item' = rem_item + 1
                   /\ UNCHANGED <<pc, rem_day>>
              ELSE /\ rem_item' = 0
                   /\ rem_day' = rem_day + 1
                   /\ pc' = AfterDay(rem_day)
    /\ UNCHANGED <<inputs, sorted_subjects, warned, day_index, subject_index, day_plan,
                   day_hours_used, day_number, session>>

\* plan.copy(): a new list of the same day dicts
ListCopy(refs) == refs

\* lines 631-633: the plan is stored in the session state
Commit ==
    /\ pc = "commit"
    /\ pc' = "idle"
    /\ heap' = plan
    /\ study_plan' = [i \in 1..Len(plan) |-> i]
    /\ original_plan' = ListCopy([i \in 1..Len(plan) |-> i])
    /\ generated' = plan
    /\ repairs' = 0
    /\ UNCHANGED <<inputs, locals>>

(***************************************************************************)
(* PlanRepairer: "Re-adjust Plan", lines 743-765.  The lists hold          *)
(* references to the day dicts, so an append to a day's Tasks is seen      *)
(* through every list that holds the day.                                  *)
(***************************************************************************)
\* [day_plan["Day"] for day_plan in st.session_state.study_plan]
AvailableDays == {heap[study_plan[i]].Day : i \in 1..Len(study_plan)}

\* next(p for p in original_plan if p["Day"] == missed_day)
MissedPlan(refs, missed_day) ==
    refs[CHOOSE i \in 1..Len(refs) :
            /\ heap[refs[i]].Day = missed_day
            /\ \A j \in 1..(i - 1) : heap[refs[j]].Day # missed_day]

\* [p for p in original_plan if p["Day"] != missed_day]
AdjustedPlan(refs, missed_day) ==
    SelectSeq(refs, LAMBDA r : heap[r].Day # missed_day)

\* the day that receives the missed tasks
Receiver(adjusted_plan) == adjusted_plan[1]

Repair(missed_day) ==
    /\ pc = "idle"
    /\ study_plan # <<>>
    /\ repairs < MaxRepairs
    /\ missed_day \in AvailableDays
    /\ LET missed_plan == MissedPlan(original_plan, missed_day)
           adjusted_plan == AdjustedPlan(original_plan, missed_day)
       IN  /\ heap' = IF adjusted_plan # <<>>
                      THEN [heap EXCEPT ![Receiver(adjusted_plan)].Tasks =
                               @ \o heap[missed_plan].Tasks]
                      ELSE heap
           /\ study_plan' = adjusted_plan
    /\ repairs' = repairs + 1
    /\ UNCHANGED <<inputs, pc, locals, original_plan, generated>>

(***************************************************************************)
(* Weekly Load Summary, lines 772-778: hours per subject over the days of  *)
(* original_plan, in twentieths of an hour.                                *)
(***************************************************************************)
\* task.split(" (")[0].replace(" (+", "")
SummarySubject(task) == Remove(SplitHead(task.text, <<" ", "(">>), <<" ", "(", "+">>)

\* float(task.split("(")[1].replace("h)", "").replace("+", ""))
SummaryHours(task) ==
    float(Remove(Remove(SplitSecond(task.text, <<"(">>), <<"h", ")">>), <<"+">>))

AllTasks(refs) ==
    LET RECURSIVE Concat(_)
        Concat(i) == IF i > Len(refs) THEN <<>> ELSE heap[refs[i]].Tasks \o Concat(i + 1)
    IN  Concat(1)

subject_totals ==
    LET tasks == AllTasks(original_plan)
        names == {SummarySubject(tasks[i]) : i \in 1..Len(tasks)}
    IN  [n \in names |->
            SumSeq([i \in 1..Len(tasks) |->
                       IF SummarySubject(tasks[i]) = n THEN SummaryHours(tasks[i]) ELSE 0])]

(***************************************************************************)
(* Specification.                                                          *)
(***************************************************************************)
\* the inputs within the bounds of the model
BoundedInputs ==
    /\ subjects \in SubjectLists
    /\ selected_days \in SelectedDaysChoices
    /\ study_hours \in {HalfHours(k) : k \in 1..MaxStudyHalfHours}
    /\ max_subjects_per_day \in 1..MaxSubjectsPerDay
    /\ min_session_hours \in {HalfHours(k) : k \in 1..MaxMinSessionHalfHours}
    /\ preferred_times \in PreferredChoices

NameCS101 == <<"C", "S", "1", "0", "1">>
NameMATH == <<"M", "A", "T", "H">>

\* the scenario of CS101 (deadline in 3 days, Hard, 6h) and MATH (deadline in
\* 10 days, Easy, 4h) over Monday..Friday with 2.5h a day, at most 5
\* subjects a day, sessions of at least 1.0h and the default preferred times
ExampleInputs ==
    /\ subjects = <<Subject(NameCS101, 2, 3, 6), Subject(NameMATH, 9, 1, 4)>>
    /\ selected_days = SubSeq(Week, 1, 5)
    /\ study_hours = HalfHours(5)
    /\ max_subjects_per_day = 5
    /\ min_session_hours = HalfHours(2)
    /\ preferred_times = <<time_slots_options[2], time_slots_options[5]>>

Init ==
    /\ BoundedInputs \/ ExampleInputs
    /\ pc = "idle"
    /\ remaining_hours = InitialRemaining(subjects)
    /\ sorted_subjects = <<>>
    /\ warned = FALSE
    /\ plan = <<>>
    /\ day_index = 0 /\ subject_index = 0
    /\ day_plan = DayPlan(DayLabel(0, ""), <<>>, <<>>)
    /\ day_hours_used = 0
    /\ day_number = 0
    /\ rem_day = 0 /\ rem_item = 0 /\ remaining_day_capacity = 0
    /\ heap = <<>>
    /\ study_plan = <<>>
    /\ original_plan = <<>>
    /\ generated = <<>>
    /\ repairs = 0

Next ==
    \/ GenerateClick
    \/ AllocateSubject
    \/ FinishDay
    \/ RedistributeDay
    \/ RedistributeSubject
    \/ Commit
    \/ \E missed_day \in AvailableDays : Repair(missed_day)

Spec == Init /\ [][Next]_vars

(***************************************************************************)
(* Properties.                                                             *)
(***************************************************************************)
\* a generation has run to its end and stored its plan
Generated == pc = "idle" /\ sorted_subjects # <<>>

\* the hours the allocator committed to the entries of a task list
Committed(tasks) == SumSeq([i \in 1..Len(tasks) |-> tasks[i].hours])

IsExtra(task) == task.index = 0

\* the days a generation run has built so far, the one being filled included
DaysInProgress == IF pc = "main" THEN Append(plan, day_plan) ELSE plan

\* C1: in the main allocation pass the running total of the day never
\* exceeds the daily capacity: day_hours_used is the sum of the hours
\* committed to the day's entries and is at most study_hours, and so is the
\* sum of every day the pass has finished.
C1_CapacityMainPass ==
    pc = "main" =>
        /\ day_hours_used = Committed(day_plan.Tasks)
        /\ day_hours_used <= study_hours
        /\ \A i \in 1..Len(plan) : Committed(plan[i].Tasks) <= study_hours

\* a day filled to the brim by two subjects, the second one cut to what was left
C1_Witness ==
    /\ pc = "main"
    /\ Len(day_plan.Tasks) = 2
    /\ day_hours_used = study_hours
    /\ day_plan.Tasks[2].hours < PriorityHours(sorted_subjects[day_plan.Tasks[2].index].priority)
    /\ day_plan.Tasks[2].hours < remaining_hours[sorted_subjects[day_plan.Tasks[2].index].name]
                                    + day_plan.Tasks[2].hours

BlockedIntervals ==
    {<<p, p + PrayerMinutes>> : p \in ISLAMIC_PRAYER_TIMES} \cup BREAK_TIMES

Intersect(a, b) == a[1] < b[2] /\ b[1] < a[2]

SlotsDisjoint(slots) ==
    /\ \A i, j \in 1..Len(slots) : i # j => ~Intersect(slots[i].time, slots[j].time)
    /\ \A i \in 1..Len(slots) : \A b \in BlockedIntervals : ~Intersect(slots[i].time, b)

\* C2: on every day of a plan, the time slots the scheduler returned are
\* pairwise disjoint (so no atomic slot is claimed twice) and none of them
\* intersects a blocked interval (prayer time plus 10 minutes, break range).
C2_SlotNonOverlap ==
    /\ \A i \in 1..Len(plan) : SlotsDisjoint(plan[i].TimeSlots)
    /\ \A i \in 1..Len(heap) : SlotsDisjoint(heap[i].TimeSlots)

\* a day in the lunch window, whose only free slot is claimed, and a day
\* with the slots of two different tasks
C2_Witness ==
    /\ Generated
    /\ \E i \in 1..Len(heap) :
          \/ /\ preferred_times = <<time_slots_options[4]>>
             /\ Len(heap[i].TimeSlots) = 1
          \/ /\ Len(heap[i].TimeSlots) >= 4
             /\ \E a, b \in 1..Len(heap[i].TimeSlots) :
                    heap[i].TimeSlots[a].task # heap[i].TimeSlots[b].task

\* number of task entries over the days a list refers to
TaskCount(h, refs) == SumSeq([i \in 1..Len(refs) |-> Len(h[refs[i]].Tasks)])

\* C3: a re-adjustment keeps the number of task entries of the plan: the
\* entries of the missed day move to one other day, none is dropped and
\* none is duplicated.
C3_RepairConserves ==
    [][repairs' = repairs + 1 =>
          /\ TaskCount(heap', study_plan') = TaskCount(heap, study_plan)
          /\ Len(study_plan') = Len(study_plan) - 1]_vars

\* C4: a re-adjustment never changes the original plan: its days and their
\* task lists stay what generation stored.
C4_BaselineImmutable ==
    Generated =>
        /\ Len(original_plan) = Len(generated)
        /\ \A i \in 1..Len(original_plan) : heap[original_plan[i]] = generated[i]

\* C5: every day of a generated plan has at most max_subjects_per_day task
\* entries, during the main pass, during the remediation pass and when the
\* plan is stored.
C5_SubjectCount ==
    /\ \A i \in 1..Len(DaysInProgress) : Len(DaysInProgress[i].Tasks) <= max_subjects_per_day
    /\ \A i \in 1..Len(generated) : Len(generated[i].Tasks) <= max_subjects_per_day

\* a stored day that the remediation pass filled up to the limit
C5_Witness ==
    /\ Generated
    /\ \E i \in 1..Len(generated) :
          /\ Len(generated[i].Tasks) = max_subjects_per_day
          /\ IsExtra(generated[i].Tasks[Len(generated[i].Tasks)])
          /\ AnyRemaining(remaining_hours)

\* C6: after the remediation pass too, the hours committed to a day never
\* exceed the daily capacity.
C6_RemediationCapacity ==
    \A i \in 1..Len(plan) : Committed(plan[i].Tasks) <= study_hours

\* the capacity warning is due: the weekly need exceeds days x capacity
NeedExceedsCapacity ==
    SumSeq([i \in 1..Len(subjects) |-> Hours(subjects[i].hours_needed)])
        > Len(selected_days) * study_hours

\* C7 as stated: whenever a subject has hours left at the end of generation,
\* the caller is told.
C7_RemainingReported == (Generated /\ AnyRemaining(remaining_hours)) => warned

\* C7 as amended: the caller is told exactly when the weekly need exceeds
\* days x capacity, whatever remains at the end.
C7_WarnedIffOverCapacity == Generated => (warned <=> NeedExceedsCapacity)

\* hours remain and the warning was given
C7_Witness == Generated /\ AnyRemaining(remaining_hours) /\ warned

\* C8: every task entry of a generated plan allocates at least
\* min_session_hours.
C8_MinimumSession ==
    \A i \in 1..Len(plan) : \A j \in 1..Len(plan[i].Tasks) :
        plan[i].Tasks[j].hours >= min_session_hours

RankedBefore(a, b) ==
    \/ a.days < b.days
    \/ a.days = b.days /\ a.priority >= b.priority

\* C9: on every day the entries of the main pass stand in ranked order:
\* fewer days to the deadline first, and among equal day counts the higher
\* priority first; supplemental sessions come after them.
C9_RankingOrder ==
    \A d \in 1..Len(DaysInProgress) :
        LET tasks == DaysInProgress[d].Tasks
        IN  \A i, j \in 1..Len(tasks) :
                i < j =>
                    /\ IsExtra(tasks[i]) => IsExtra(tasks[j])
                    /\ (~IsExtra(tasks[i]) /\ ~IsExtra(tasks[j])) =>
                          /\ tasks[i].index < tasks[j].index
                          /\ RankedBefore(sorted_subjects[tasks[i].index],
                                          sorted_subjects[tasks[j].index])

\* an overdue easy subject stands before a hard one that is not overdue,
\* although it was added after it
C9_Witness ==
    /\ Generated
    /\ subjects[1].priority = 3 /\ subjects[1].days > 0
    /\ \E d \in 1..Len(plan) :
          /\ Len(plan[d].Tasks) >= 2
          /\ sorted_subjects[plan[d].Tasks[1].index].days < 0
          /\ sorted_subjects[plan[d].Tasks[1].index].priority = 1
          /\ sorted_subjects[plan[d].Tasks[2].index] = subjects[1]

\* C10: the load summary gives every subject the hours the allocator
\* committed to it: its hours needed minus its remaining hours.
C10_SummaryIsCommitted ==
    Generated =>
        \A n \in NamesOf(subjects) :
            LET committed == InitialRemaining(subjects)[n] - remaining_hours[n]
            IN  IF n \in DOMAIN subject_totals
                THEN subject_totals[n] = committed
                ELSE committed = 0

\* C11: a study day that received a task goes into the plan, also when the
\* scheduler could place none of its tasks (its TimeSlots are then empty);
\* a study day that received no task does not go into the plan.
C11_DayKeptIffTasks ==
    [][(pc = "main" /\ subject_index > Len(sorted_subjects)) =>
          IF day_plan.Tasks # <<>>
          THEN /\ Len(plan') = Len(plan) + 1
               /\ SubSeq(plan', 1, Len(plan)) = plan
               /\ plan'[Len(plan')].Day = day_plan.Day
               /\ plan'[Len(plan')].Tasks = day_plan.Tasks
               /\ pc' \in {"main", "redistribute", "commit"}
          ELSE plan' = plan]_vars

\* a stored plan with a day whose task found no slot in the chosen window,
\* and a later study day that got no task and is not in the plan
C11_Witness ==
    /\ Generated
    /\ preferred_times # <<>>
    /\ Len(generated) < Len(selected_days)
    /\ \E i \in 1..Len(generated) :
          /\ generated[i].Tasks # <<>>
          /\ generated[i].TimeSlots = <<>>

\* the hours the main pass committed to the entries of a task list that
\* carry the name n
MainHoursOf(tasks, n) ==
    SumSeq([i \in 1..Len(tasks) |->
               IF ~IsExtra(tasks[i]) /\ ParseName(tasks[i]) = n THEN tasks[i].hours ELSE 0])

\* the hours of name n the main pass had committed before day d of the plan
MainHoursBefore(n, d) ==
    SumSeq([e \in 1..(d - 1) |-> MainHoursOf(plan[e].Tasks, n)])

\* C12: in the example scenario, on every day on which CS101 still has
\* hours left it is the first task and gets min(2.5h, left, 2.25h), which
\* is 2.25h, 2.25h, 1.5h; on every later day on which MATH has hours left,
\* MATH is allocated within the day's capacity.
C12_ExampleScenario ==
    (ExampleInputs /\ Generated) =>
        /\ Len(plan) = 5
        /\ \A d \in 1..Len(plan) :
              LET cs_left == Hours(6) - MainHoursBefore(NameCS101, d)
                  math_left == Hours(4) - MainHoursBefore(NameMATH, d)
                  first == plan[d].Tasks[1]
              IN  IF cs_left > 0
                  THEN /\ ParseName(first) = NameCS101
                       /\ ~IsExtra(first)
                       /\ first.hours = Min2(Min2(HalfHours(5), cs_left), 45)
                  ELSE math_left > 0 =>
                          /\ ParseName(first) = NameMATH
                          /\ ~IsExtra(first)
                          /\ first.hours > 0
                          /\ first.hours <= HalfHours(5)
        /\ [d \in 1..3 |-> plan[d].Tasks[1].hours] = <<45, 45, 30>>
        /\ Hours(6) - MainHoursBefore(NameCS101, 4) = 0

\* the example's plan on its fourth day: CS101 is exhausted, MATH is first
C12_Witness ==
    /\ ExampleInputs
    /\ Generated
    /\ Len(plan) >= 4
    /\ ParseName(plan[4].Tasks[1]) = NameMATH
    /\ ParseName(plan[3].Tasks[1]) = NameCS101

\* C13: when the remediation pass considers a day and a subject with hours
\* left, and the day already holds a task of that subject, has spare
\* capacity (study hours less the hours committed to the day) of at least
\* the minimum session and fewer tasks than the daily maximum, then a
\* supplemental task of min(spare, left, 2 x minimum session) for that
\* subject is appended to the day and the subject's remaining hours drop by
\* as much; otherwise the day gets no supplemental task for the subject.
C13_RemediationRule ==
    [][pc = "redistribute" =>
          LET tasks == plan[rem_day].Tasks
              spare == study_hours - Committed(tasks)
              Eligible(n) ==
                  /\ remaining_hours[n] > 0
                  /\ \E i \in 1..Len(tasks) : ParseName(tasks[i]) = n
                  /\ spare >= min_session_hours
                  /\ Len(tasks) < max_subjects_per_day
          IN  IF rem_item = 0
              THEN /\ plan' = plan
                   /\ (\E n \in DOMAIN remaining_hours : Eligible(n)) => rem_item' = 1
              ELSE LET n == ItemOrder(subjects)[rem_item]
                       amount == Min2(Min2(spare, remaining_hours[n]), 2 * min_session_hours)
                   IN  IF Eligible(n)
                       THEN /\ Len(plan'[rem_day].Tasks) = Len(tasks) + 1
                            /\ LET added == plan'[rem_day].Tasks[Len(tasks) + 1]
                               IN  /\ IsExtra(added)
                                   /\ ParseName(added) = n
                                   /\ added.hours = amount
                            /\ remaining_hours'[n] = remaining_hours[n] - amount
                       ELSE /\ plan' = plan
                            /\ remaining_hours' = remaining_hours]_vars

\* the placement in which a task that finds no run of its slot count gets
\* no slots and the next task is tried from the same cursor
RECURSIVE PlaceEachTask(_, _, _, _)
PlaceEachTask(sorted_tasks, time_slots, task_index, slot_index) ==
    IF ~(task_index <= Len(sorted_tasks) /\ slot_index <= Len(time_slots))
    THEN time_slots
    ELSE LET task == sorted_tasks[task_index]
             slots_needed == SlotsNeeded(task)
             found == ScanSlots(time_slots, slot_index, slots_needed, 0, -1)
         IN  IF found[1] >= slots_needed
             THEN PlaceEachTask(sorted_tasks,
                                ClaimSlots(time_slots, found[2], slots_needed, ParseName(task)),
                                task_index + 1, found[2] + slots_needed)
             ELSE PlaceEachTask(sorted_tasks, time_slots, task_index + 1, slot_index)

MainTasks(tasks) == SelectSeq(tasks, LAMBDA task : ~IsExtra(task))

\* C14: the time slots of every day of the plan are those of the placement
\* that takes the day's tasks by descending hours, gives no slots to a task
\* that finds no run of its slot count, and still places every later task
\* for which a run of unclaimed slots exists from the cursor onward.
C14_LaterTasksPlaced ==
    \A d \in 1..Len(plan) :
        LET time_slots == AvailableSlots(preferred_times)
            placed == PlaceEachTask(SortTasks(MainTasks(plan[d].Tasks)), time_slots, 1, 1)
        IN  plan[d].TimeSlots = SelectSeq(placed, LAMBDA slot : slot.task # NoTask)

\* the minutes a displayed line spans on the clock
SpanMinutes(line) == line.end_time - line.start_time

\* C15: every line of a day's displayed schedule spans, on the clock,
\* exactly the duration it states (30 minutes per claimed slot, so the
\* claimed slots are contiguous), intersects no blocked interval, and
\* intersects no other line of the same day.
C15_DisplayedContiguous ==
    \A d \in 1..Len(plan) :
        LET lines == DisplayedSlots(plan[d].TimeSlots)
        IN  /\ \A k \in 1..Len(lines) :
                  /\ Hours(SpanMinutes(lines[k])) = 60 * lines[k].duration_hours
                  /\ \A b \in BlockedIntervals :
                        ~Intersect(<<lines[k].start_time, lines[k].end_time>>, b)
            /\ \A k, l \in 1..Len(lines) :
                  k # l => ~Intersect(<<lines[k].start_time, lines[k].end_time>>,
                                      <<lines[l].start_time, lines[l].end_time>>)

\* the atomic 30-minute intervals of a window, in chronological order, that
\* intersect none of the given blocked intervals
FreeIntervals(window, blocked) ==
    LET n == (window[2] - window[1]) \div 30
    IN  SelectSeq([k \in 1..n |-> <<window[1] + 30 * (k - 1), window[1] + 30 * k>>],
                  LAMBDA t : \A b \in blocked : ~Intersect(t, b))

RECURSIVE FreeIntervalsOf(_, _)
FreeIntervalsOf(windows, blocked) ==
    IF windows = <<>> THEN <<>>
    ELSE FreeIntervals(Head(windows), blocked) \o FreeIntervalsOf(Tail(windows), blocked)

TimesOf(time_slots) == [i \in 1..Len(time_slots) |-> time_slots[i].time]

\* the available sequence of every choice of preferred windows, as the
\* scheduler builds it and as the half-open intersection test defines it
AvailableTimes == [times \in PreferredChoices |-> TimesOf(AvailableSlots(times))]
FreeTimes == [times \in PreferredChoices |-> FreeIntervalsOf(times, BlockedIntervals)]

\* the window 12:30 - 14:00 with 13:00 - 13:10 blocked
ExampleWindowTimes == TimesOf(WindowSlotsWith(<<750, 840>>, {780}, {}))

\* C16: the available sequence of the preferred windows is, window by
\* window and in chronological order, the 30-minute slots whose half-open
\* interval intersects no blocked interval (touching at an endpoint is no
\* intersection), and every slot a day claims is one of them.  With 13:00 -
\* 13:10 blocked, window 12:30 - 14:00 yields 12:30 - 13:00 and 13:30 -
\* 14:00 and not 13:00 - 13:30.
C16_AvailableSequence ==
    /\ AvailableTimes[preferred_times] = FreeTimes[preferred_times]
    /\ \A d \in 1..Len(plan) : \A i \in 1..Len(plan[d].TimeSlots) :
           \E j \in 1..Len(FreeTimes[preferred_times]) :
               FreeTimes[preferred_times][j] = plan[d].TimeSlots[i].time
    /\ ExampleWindowTimes = << <<750, 780>>, <<810, 840>> >>

\* a generated day that claims 07:30 PM - 08:00 PM, the slot that starts
\* where the dinner break ends
C16_Witness ==
    /\ Generated
    /\ \E d \in 1..Len(plan) : \E i \in 1..Len(plan[d].TimeSlots) :
           /\ plan[d].TimeSlots[i].time = <<1170, 1200>>
           /\ \E b \in BREAK_TIMES : b[2] = 1170

\* the days of the plan so far, with the day being filled once it holds a task
DaysWithTasks ==
    IF pc = "main" /\ day_plan.Tasks # <<>> THEN Append(plan, day_plan) ELSE plan

\* C17: the days of a plan, the one being filled included once it has a
\* task, are the first study days in order: the k-th day is labelled Day k
\* and is the k-th selected study day, so no study day is skipped in
\* between.
C17_PlanIsPrefix ==
    /\ Len(DaysWithTasks) <= Len(selected_days)
    /\ \A k \in 1..Len(DaysWithTasks) :
           /\ DaysWithTasks[k].Day = <<k, selected_days[k]>>
           /\ DaysWithTasks[k].Tasks # <<>>

\* a generated plan that stops before the last study day: the later study
\* days received no task
C17_Witness ==
    /\ Generated
    /\ Len(plan) >= 1
    /\ Len(plan) < Len(selected_days)
    /\ plan[Len(plan)].Day = <<Len(plan), selected_days[Len(plan)]>>

DistinctNames == Cardinality(NamesOf(subjects)) = Len(subjects)

\* the hours committed so far, by either pass, to the tasks named n
CommittedTo(n) ==
    SumSeq([d \in 1..Len(DaysInProgress) |->
               LET tasks == DaysInProgress[d].Tasks
               IN  SumSeq([i \in 1..Len(tasks) |->
                              IF ParseName(tasks[i]) = n THEN tasks[i].hours ELSE 0])])

\* C18: for subjects with distinct names, at every point of the main pass
\* and of the remediation pass, each subject's remaining hours lie between
\* 0 and its hours needed, and the hours committed to it so far plus its
\* remaining hours equal its hours needed.
C18_NoOverAllocation ==
    DistinctNames =>
        \A i \in 1..Len(subjects) :
            LET n == subjects[i].name
                needed == Hours(subjects[i].hours_needed)
            IN  /\ remaining_hours[n] >= 0
                /\ remaining_hours[n] <= needed
                /\ CommittedTo(n) + remaining_hours[n] = needed

\* the remediation pass has appended a supplemental task for one of two
\* subjects with distinct names, and a subject still has hours left
C18_Witness ==
    /\ DistinctNames
    /\ Len(subjects) = 2
    /\ pc \in {"redistribute", "commit"}
    /\ \E d \in 1..Len(plan) : \E i \in 1..Len(plan[d].Tasks) :
           /\ IsExtra(plan[d].Tasks[i])
           /\ plan[d].Tasks[i].hours > 0
    /\ \E n \in DOMAIN remaining_hours : remaining_hours[n] > 0

====
